---- MODULE Spec2Model ----
(***************************************************************************)
(* Model of the dual-channel streaming/control server of the autonomous    *)
(* car: raspberry_pi/server/{tcp_server,main,camera,motor}.py.             *)
(*                                                                         *)
(* Threads of the program are modelled as processes with a program counter *)
(* each; one action is one step between two points at which the CPython    *)
(* interpreter may switch threads and at which another thread can observe  *)
(* or change the shared state the step touches.                            *)
(***************************************************************************)
EXTENDS Integers, Sequences, FiniteSets, TLC

\* ------------------------------------------------------------------ bounds
\* Connections the two listeners accept in one run, together.
MaxSocks == 3
\* Command records the clients send in one run.
MaxCmds == 1
\* STREAM command records the client sends in one run of SpecCam.
MaxStreamCmds == 3
\* Frames the encoder publishes in one run.
MaxFrames == 2
\* Arguments of a MOTOR command.
MaxArgs == 5

\* ------------------------------------------------------- program constants
max_clients == 1
DUTY_MAX == 4095

\* ------------------------------------------------------------------- text
\* A text is a sequence of one-character strings.
Digits == {"0", "1", "2", "3", "4", "5", "6", "7", "8", "9"}

Whitespace == {" ", "\n"}

DigitVal(c) ==
    CASE c = "0" -> 0 [] c = "1" -> 1 [] c = "2" -> 2 [] c = "3" -> 3
      [] c = "4" -> 4 [] c = "5" -> 5 [] c = "6" -> 6 [] c = "7" -> 7
      [] c = "8" -> 8 [] c = "9" -> 9

\* str.upper() on the letters the inputs use.
UpperChar(c) ==
    CASE c = "m" -> "M" [] c = "o" -> "O" [] c = "t" -> "T" [] c = "r" -> "R"
      [] c = "s" -> "S" [] c = "a" -> "A" [] c = "u" -> "U" [] c = "e" -> "E"
      [] c = "p" -> "P" [] c = "x" -> "X"
      [] OTHER -> c

Upper(s) == [i \in 1..Len(s) |-> UpperChar(s[i])]

RECURSIVE LStrip(_)
LStrip(s) == IF s # <<>> /\ Head(s) \in Whitespace THEN LStrip(Tail(s)) ELSE s

RECURSIVE RStrip(_)
RStrip(s) ==
    IF s # <<>> /\ s[Len(s)] \in Whitespace
    THEN RStrip(SubSeq(s, 1, Len(s) - 1))
    ELSE s

\* str.strip()
Strip(s) == RStrip(LStrip(s))

\* str.split('#'): the fields between the separators, empty fields kept.
RECURSIVE SplitFrom(_, _, _)
SplitFrom(s, cur, acc) ==
    IF s = <<>> THEN Append(acc, cur)
    ELSE IF Head(s) = "#" THEN SplitFrom(Tail(s), <<>>, Append(acc, cur))
    ELSE SplitFrom(Tail(s), Append(cur, Head(s)), acc)

Split(s) == SplitFrom(s, <<>>, <<>>)

\* The digits-and-underscores body of an integer literal: a digit first and
\* last, underscores only singly between digits.
IsIntBody(b) ==
    /\ b # <<>>
    /\ \A i \in 1..Len(b) : b[i] \in Digits \cup {"_"}
    /\ b[1] \in Digits
    /\ b[Len(b)] \in Digits
    /\ \A i \in 1..(Len(b) - 1) : ~(b[i] = "_" /\ b[i + 1] = "_")

RECURSIVE BodyVal(_, _)
BodyVal(b, acc) ==
    IF b = <<>> THEN acc
    ELSE IF Head(b) = "_" THEN BodyVal(Tail(b), acc)
    ELSE BodyVal(Tail(b), 10 * acc + DigitVal(Head(b)))

\* int(token): surrounding whitespace dropped, an optional sign, then the
\* body; ok = FALSE stands for the ValueError int() raises.
ParseInt(tok) ==
    LET t == Strip(tok)
        signed == t # <<>> /\ Head(t) \in {"+", "-"}
        body == IF signed THEN Tail(t) ELSE t
    IN  IF IsIntBody(body)
        THEN [ok |-> TRUE,
              val |-> IF signed /\ Head(t) = "-"
                      THEN 0 - BodyVal(body, 0) ELSE BodyVal(body, 0)]
        ELSE [ok |-> FALSE, val |-> 0]

\* ------------------------------------------------------------------ state
VARIABLES
    \* tcp_server.py, TCPServer
    running,            \* TCPServer.running
    command_clients,    \* dict socket -> address: the slots of its entry table
    video_clients,      \* the same for the video channel
    message_queue,      \* queue.Queue of (client_address, command)
    csock,              \* the command connections accepted so far, by socket id
    vsock,              \* the video connections accepted so far, by socket id
    cmd_acc,            \* thread handle_command_clients
    vid_acc,            \* thread handle_video_clients
    listen,             \* command_socket / video_socket still open
    \* main.py, LaneFollowingCar
    car_running,        \* LaneFollowingCar.running
    streaming,          \* LaneFollowingCar.streaming
    video_thread,       \* LaneFollowingCar.video_thread (0 = None)
    disp,               \* thread process_commands
    main,               \* the main thread: signal handler, stop(), stop() again
    bthreads,           \* the stream_video_frames threads started so far
    \* camera.py
    cam,                \* Camera and its current StreamingOutput
    published,          \* frames the encoder has written so far
    \* motor.py
    initialized,        \* MotorController.initialized
    pwm,                \* last value written to each PCA9685 channel
    motorCalls,         \* history: the calls of set_motor_speeds, in order
    \* history
    cwritten,           \* responses written to command sockets, in order
    vwritten,           \* sendall calls that wrote to video sockets, in order
    rejected,           \* connections closed by the capacity check
    sent                \* command records received so far

netVars == <<running, command_clients, video_clients, message_queue, csock,
             vsock, cmd_acc, vid_acc, listen>>
carVars == <<car_running, streaming, video_thread, disp, main, bthreads>>
camVars == <<cam, published>>
motorVars == <<initialized, pwm, motorCalls>>
histVars == <<cwritten, vwritten, rejected, sent>>
vars == <<netVars, carVars, camVars, motorVars, histVars>>

\* Peer addresses (ip, port) a connection can come from, in the order in
\* which a run first sees them (the addresses are interchangeable).
Addrs == <<"A", "B">>

\* A queue record: (client_address, command), with the socket it was read
\* from, for a command built by MotorText the arguments it was built of, and
\* its number in the order of the puts.
Nil == [addr |-> "", text |-> <<>>, from |-> 0, margs |-> <<>>, n |-> 0]

NoResp == [tag |-> "", msg |-> "", arg |-> <<>>, status |-> <<>>]

Resp(tag, msg) == [tag |-> tag, msg |-> msg, arg |-> <<>>, status |-> <<>>]

RespArg(tag, msg, arg) == [tag |-> tag, msg |-> msg, arg |-> arg, status |-> <<>>]

\* ---------------------------------------------------------------- the dict
\* A registry is the entry table of a CPython dict: a slot per insertion, in
\* insertion order, 0 once the entry is deleted; clear() drops the table.
\* (A table is compacted only on the 6th insertion since it was created,
\* which the bounds on connections never reach.)
Live(reg) == {i \in 1..Len(reg) : reg[i] # 0}

\* len(d)
Size(reg) == Cardinality(Live(reg))

\* key in d
Has(reg, s) == \E i \in Live(reg) : reg[i] = s

\* d[key] = value, for a key not in d
Insert(reg, s) == Append(reg, s)

\* del d[key]
Delete(reg, s) == [i \in 1..Len(reg) |-> IF reg[i] = s THEN 0 ELSE reg[i]]

\* list(d.keys())
Keys(reg) == SelectSeq(reg, LAMBDA x : x # 0)

\* iter(d.items()): the size at creation, the position, the items still due.
NewIter(reg) == [used |-> Size(reg), pos |-> 0, len |-> Size(reg)]

\* next(it): "error" is the RuntimeError dictionary changed size / keys
\* changed during iteration, "stop" is StopIteration.
IterNext(it, reg) ==
    LET due == {i \in Live(reg) : i > it.pos}
        i == CHOOSE j \in due : \A k \in due : j <= k
    IN  IF Size(reg) # it.used THEN [kind |-> "error", s |-> 0, it |-> it]
        ELSE IF due = {} THEN [kind |-> "stop", s |-> 0, it |-> it]
        ELSE IF it.len = 0 THEN [kind |-> "error", s |-> 0, it |-> it]
        ELSE [kind |-> "item", s |-> reg[i],
              it |-> [used |-> it.used, pos |-> i, len |-> it.len - 1]]

NoIter == [used |-> 0, pos |-> 0, len |-> 0]

\* ------------------------------------------------------------- connections
OpenAddrs(socks) == {socks[i].addr : i \in {j \in 1..Len(socks) : socks[j].open}}

\* The addresses accept() can return for a new connection: one seen before
\* or the next new one, and the address of no connection that is still open.
NewAddrs(socks) ==
    LET seen == {socks[i].addr : i \in 1..Len(socks)}
        known == {i \in 1..Len(Addrs) : Addrs[i] \in seen}
        next == {i \in 1..Len(Addrs) : \A j \in 1..(i - 1) : j \in known}
    IN  {Addrs[i] : i \in known \cup next} \ OpenAddrs(socks)

\* A close() that leaves the socket open (the sensitivity variant of C2).
CloseSock_Not(socks, s) == socks

\* client_socket.close()
CloseSock(socks, s) == [socks EXCEPT ![s].open = FALSE]

CloseAll(socks, ks) ==
    [i \in 1..Len(socks) |->
        IF \E j \in 1..Len(ks) : ks[j] = i
        THEN [socks[i] EXCEPT !.open = FALSE] ELSE socks[i]]

\* ------------------------------------------- handle_command_clients thread
\* while self.running:
CmdAccLoop ==
    /\ cmd_acc.pc = "loop"
    /\ cmd_acc' = [cmd_acc EXCEPT !.pc = IF running THEN "accept" ELSE "exit"]
    /\ UNCHANGED <<running, command_clients, video_clients, message_queue,
                   csock, vsock, vid_acc, listen>>
    /\ UNCHANGED <<carVars, camVars, motorVars, histVars>>

\* accept() returns a connection from an address no open connection has.
CmdAccept ==
    /\ cmd_acc.pc = "accept"
    /\ listen.cmd
    /\ Len(csock) + Len(vsock) < MaxSocks
    /\ \E a \in NewAddrs(csock) :
          csock' = Append(csock, [addr |-> a, open |-> TRUE, rd |-> "none"])
    /\ cmd_acc' = [pc |-> "check", s |-> Len(csock) + 1]
    /\ UNCHANGED <<running, command_clients, video_clients, message_queue,
                   vsock, vid_acc, listen>>
    /\ UNCHANGED <<carVars, camVars, motorVars, histVars>>

\* accept() times out, or raises on the closed listening socket (sleep(1)).
CmdAcceptNone ==
    /\ cmd_acc.pc = "accept"
    /\ cmd_acc' = [cmd_acc EXCEPT !.pc = "loop"]
    /\ UNCHANGED <<running, command_clients, video_clients, message_queue,
                   csock, vsock, vid_acc, listen>>
    /\ UNCHANGED <<carVars, camVars, motorVars, histVars>>

\* if len(self.command_clients) >= self.max_clients: close, continue
CmdAccCheck ==
    /\ cmd_acc.pc = "check"
    /\ IF Size(command_clients) >= max_clients
       THEN /\ csock' = CloseSock(csock, cmd_acc.s)
            /\ rejected' = rejected \cup {<<"cmd", cmd_acc.s>>}
            /\ cmd_acc' = [pc |-> "loop", s |-> 0]
       ELSE /\ cmd_acc' = [cmd_acc EXCEPT !.pc = "register"]
            /\ UNCHANGED <<csock, rejected>>
    /\ UNCHANGED <<running, command_clients, video_clients, message_queue,
                   vsock, vid_acc, listen>>
    /\ UNCHANGED <<carVars, camVars, motorVars, cwritten, vwritten, sent>>

\* self.command_clients[client_socket] = client_address; the thread
\* handle_client_commands is created and started (nothing observes a thread
\* between its start and its first statement)
CmdAccRegister ==
    /\ cmd_acc.pc = "register"
    /\ command_clients' = Insert(command_clients, cmd_acc.s)
    /\ csock' = [csock EXCEPT ![cmd_acc.s].rd = "start"]
    /\ cmd_acc' = [pc |-> "loop", s |-> 0]
    /\ UNCHANGED <<running, video_clients, message_queue, vsock, vid_acc, listen>>
    /\ UNCHANGED <<carVars, camVars, motorVars, histVars>>

\* --------------------------------------------- handle_video_clients thread
VidAccLoop ==
    /\ vid_acc.pc = "loop"
    /\ vid_acc' = [vid_acc EXCEPT !.pc = IF running THEN "accept" ELSE "exit"]
    /\ UNCHANGED <<running, command_clients, video_clients, message_queue,
                   csock, vsock, cmd_acc, listen>>
    /\ UNCHANGED <<carVars, camVars, motorVars, histVars>>

VidAccept ==
    /\ vid_acc.pc = "accept"
    /\ listen.vid
    /\ Len(csock) + Len(vsock) < MaxSocks
    /\ \E a \in NewAddrs(vsock) :
          vsock' = Append(vsock, [addr |-> a, open |-> TRUE])
    /\ vid_acc' = [pc |-> "check", s |-> Len(vsock) + 1]
    /\ UNCHANGED <<running, command_clients, video_clients, message_queue,
                   csock, cmd_acc, listen>>
    /\ UNCHANGED <<carVars, camVars, motorVars, histVars>>

VidAcceptNone ==
    /\ vid_acc.pc = "accept"
    /\ vid_acc' = [vid_acc EXCEPT !.pc = "loop"]
    /\ UNCHANGED <<running, command_clients, video_clients, message_queue,
                   csock, vsock, cmd_acc, listen>>
    /\ UNCHANGED <<carVars, camVars, motorVars, histVars>>

\* handle_video_clients without its capacity test (the sensitivity variant
\* of C1).
VidAccCheck_NoLimit ==
    /\ vid_acc.pc = "check"
    /\ vid_acc' = [vid_acc EXCEPT !.pc = "register"]
    /\ UNCHANGED <<running, command_clients, video_clients, message_queue,
                   csock, vsock, cmd_acc, listen>>
    /\ UNCHANGED <<carVars, camVars, motorVars, histVars>>

\* if len(self.video_clients) >= self.max_clients: close, continue
VidAccCheck ==
    /\ vid_acc.pc = "check"
    /\ IF Size(video_clients) >= max_clients
       THEN /\ vsock' = CloseSock(vsock, vid_acc.s)
            /\ rejected' = rejected \cup {<<"vid", vid_acc.s>>}
            /\ vid_acc' = [pc |-> "loop", s |-> 0]
       ELSE /\ vid_acc' = [vid_acc EXCEPT !.pc = "register"]
            /\ UNCHANGED <<vsock, rejected>>
    /\ UNCHANGED <<running, command_clients, video_clients, message_queue,
                   csock, cmd_acc, listen>>
    /\ UNCHANGED <<carVars, camVars, motorVars, cwritten, vwritten, sent>>

\* self.video_clients[client_socket] = client_address
VidAccRegister ==
    /\ vid_acc.pc = "register"
    /\ video_clients' = Insert(video_clients, vid_acc.s)
    /\ vid_acc' = [pc |-> "loop", s |-> 0]
    /\ UNCHANGED <<running, command_clients, message_queue, csock, vsock,
                   cmd_acc, listen>>
    /\ UNCHANGED <<carVars, camVars, motorVars, histVars>>

\* ------------------------------------------- handle_client_commands thread
\* Where the thread goes when it leaves the try block: the finally clause
\* tests `client_socket in self.command_clients`.  (Leaving the loop writes
\* nothing shared, so the step that leaves it makes the test.)
Finally(s) == IF Has(command_clients, s) THEN "del" ELSE "close"

\* client_socket.settimeout(60) (OSError on a socket already closed), and
\* the first `while self.running:`
ReaderStart(s) ==
    /\ csock[s].rd = "start"
    /\ csock' = [csock EXCEPT ![s].rd =
                    IF csock[s].open /\ running THEN "recv" ELSE Finally(s)]
    /\ UNCHANGED <<running, command_clients, video_clients, message_queue,
                   vsock, cmd_acc, vid_acc, listen>>
    /\ UNCHANGED <<carVars, camVars, motorVars, histVars>>

\* while self.running:
ReaderLoop(s) ==
    /\ csock[s].rd = "check"
    /\ csock' = [csock EXCEPT ![s].rd = IF running THEN "recv" ELSE Finally(s)]
    /\ UNCHANGED <<running, command_clients, video_clients, message_queue,
                   vsock, cmd_acc, vid_acc, listen>>
    /\ UNCHANGED <<carVars, camVars, motorVars, histVars>>

\* data = client_socket.recv(1024); self.message_queue.put((address, text))
ReaderRecv(s, msgs, limit) ==
    /\ csock[s].rd = "recv"
    /\ csock[s].open
    /\ sent < limit
    /\ \E m \in msgs :
          message_queue' = Append(message_queue,
                                  [addr |-> csock[s].addr, text |-> m.text,
                                   from |-> s, margs |-> m.margs,
                                   n |-> sent + 1])
    /\ sent' = sent + 1
    /\ csock' = [csock EXCEPT ![s].rd = "check"]
    /\ UNCHANGED <<running, command_clients, video_clients, vsock, cmd_acc,
                   vid_acc, listen>>
    /\ UNCHANGED <<carVars, camVars, motorVars, cwritten, vwritten, rejected>>

\* A recv that never returns without data: no timeout is set and the close
\* of the socket by another thread does not wake it (the sensitivity variant
\* of C13).
ReaderRecvEnd_Blocks(s) ==
    /\ csock[s].rd = "recv"
    /\ FALSE
    /\ UNCHANGED vars

\* recv returns b'' (peer closed), times out after 60 s, or raises (the
\* socket was closed by stop_server, the connection was reset).
ReaderRecvEnd(s) ==
    /\ csock[s].rd = "recv"
    /\ csock' = [csock EXCEPT ![s].rd = Finally(s)]
    /\ UNCHANGED <<running, command_clients, video_clients, message_queue,
                   vsock, cmd_acc, vid_acc, listen>>
    /\ UNCHANGED <<carVars, camVars, motorVars, histVars>>

\* del self.command_clients[client_socket]: KeyError ends the thread when
\* the entry has gone since the membership test.
ReaderDel(s) ==
    /\ csock[s].rd = "del"
    /\ IF Has(command_clients, s)
       THEN /\ command_clients' = Delete(command_clients, s)
            /\ csock' = [csock EXCEPT ![s].rd = "close"]
       ELSE /\ csock' = [csock EXCEPT ![s].rd = "dead"]
            /\ UNCHANGED command_clients
    /\ UNCHANGED <<running, video_clients, message_queue, vsock, cmd_acc,
                   vid_acc, listen>>
    /\ UNCHANGED <<carVars, camVars, motorVars, histVars>>

\* client_socket.close()
ReaderClose(s) ==
    /\ csock[s].rd = "close"
    /\ csock' = [csock EXCEPT ![s].rd = "done", ![s].open = FALSE]
    /\ UNCHANGED <<running, command_clients, video_clients, message_queue,
                   vsock, cmd_acc, vid_acc, listen>>
    /\ UNCHANGED <<carVars, camVars, motorVars, histVars>>

\* ------------------------------------------------------------- motor.py
\* A _duty_range that limits nothing (the sensitivity variant of C23).
_duty_range_None(duty) == duty

\* MotorController._duty_range
_duty_range(duty) ==
    IF duty > DUTY_MAX THEN DUTY_MAX
    ELSE IF duty < 0 - DUTY_MAX THEN 0 - DUTY_MAX
    ELSE duty

Abs(x) == IF x < 0 THEN 0 - x ELSE x

\* The two PCA9685 channels of a wheel: a is zeroed when it runs forward.
MotorPins(motor_index) ==
    CASE motor_index = 0 -> [a |-> 0, b |-> 1]
      [] motor_index = 1 -> [a |-> 3, b |-> 2]
      [] motor_index = 2 -> [a |-> 6, b |-> 7]
      [] motor_index = 3 -> [a |-> 4, b |-> 5]

\* MotorController._set_motor on an initialized controller
_set_motor(p, motor_index, duty_in) ==
    LET duty == _duty_range(duty_in)
        pin == MotorPins(motor_index)
    IN  IF duty > 0 THEN [p EXCEPT ![pin.a] = 0, ![pin.b] = duty]
        ELSE IF duty < 0 THEN [p EXCEPT ![pin.b] = 0, ![pin.a] = Abs(duty)]
        ELSE [p EXCEPT ![pin.a] = DUTY_MAX, ![pin.b] = DUTY_MAX]

\* MotorController.set_motor_speeds: the channel values it leaves.
set_motor_speeds(p, speeds) ==
    IF ~initialized THEN p
    ELSE LET p0 == _set_motor(p, 0, _duty_range(speeds[1]))
             p1 == _set_motor(p0, 1, _duty_range(speeds[2]))
             p2 == _set_motor(p1, 2, _duty_range(speeds[3]))
         IN  _set_motor(p2, 3, _duty_range(speeds[4]))

\* A call of set_motor_speeds: recorded, and applied to the channels.
MotorCall(speeds) ==
    /\ motorCalls' = Append(motorCalls, speeds)
    /\ pwm' = set_motor_speeds(pwm, speeds)
    /\ UNCHANGED initialized

\* ------------------------------------------------- main.py, the dispatcher
V_MOTOR == <<"M", "O", "T", "O", "R">>

V_STOP == <<"S", "T", "O", "P">>

V_STREAM == <<"S", "T", "R", "E", "A", "M">>

V_STATUS == <<"S", "T", "A", "T", "U", "S">>

V_START == <<"S", "T", "A", "R", "T">>

\* parts = command_text.strip().split('#')
Parts(text) == Split(Strip(text))

\* command = parts[0].upper()
Command(text) == Upper(Parts(text)[1])

\* args = parts[1:] if len(parts) > 1 else []
Args(text) == Tail(Parts(text))

\* An int() that rejects nothing (the sensitivity variant of C4).
FirstBad_None(args) == 0

\* The first argument int() rejects, 0 when there is none.
FirstBad(args) ==
    LET bad == {i \in 1..Len(args) : ~ParseInt(args[i]).ok}
    IN  IF bad = {} THEN 0 ELSE CHOOSE i \in bad : \A j \in bad : i <= j

\* A handler that passes the speeds in reverse order (the sensitivity variant
\* of C3).
handle_motor_command_Reversed(args) ==
    IF Len(args) # 4 \/ FirstBad(args) # 0
    THEN [resp |-> Resp("ERROR", ""), calls |-> <<>>]
    ELSE [resp |-> Resp("OK", "MOTOR"),
          calls |-> << [i \in 1..4 |-> ParseInt(args[5 - i]).val] >>]

\* LaneFollowingCar.handle_motor_command: the response and the calls of
\* set_motor_speeds it makes (none, or one).
handle_motor_command(args) ==
    IF Len(args) # 4
    THEN [resp |-> Resp("ERROR", "Invalid motor command format. Expected 4 speed values."),
          calls |-> <<>>]
    ELSE IF FirstBad(args) # 0
    THEN [resp |-> RespArg("ERROR", "invalid literal for int() with base 10",
                           args[FirstBad(args)]),
          calls |-> <<>>]
    ELSE [resp |-> Resp("OK", "MOTOR"),
          calls |-> << [i \in 1..4 |-> ParseInt(args[i]).val] >>]

\* A STATUS response with the payload `st`.
StatusResp(st) == [tag |-> "STATUS", msg |-> "", arg |-> <<>>, status |-> <<st>>]

\* A has_video_clients that looks at the command registry (the sensitivity
\* variant of C16).
has_video_clients_Swapped == Size(command_clients) > 0

\* TCPServer.has_video_clients
has_video_clients == Size(video_clients) > 0

\* TCPServer.has_command_clients
has_command_clients == Size(command_clients) > 0

\* LaneFollowingCar.handle_status_command builds the payload with four
\* reads, between which the other threads run: the first read is made by
\* DispExec, and the fields not read yet hold FALSE until their step.
StatusUnread ==
    [running |-> FALSE, streaming |-> FALSE, video_clients |-> FALSE,
     command_clients |-> FALSE]

\* What handle_stream_command does for its arguments: an error response, or
\* the START / STOP branch.
StreamAction(args) ==
    IF Len(args) = 0 THEN "missing"
    ELSE IF Upper(args[1]) = V_START THEN "start"
    ELSE IF Upper(args[1]) = V_STOP THEN "stop"
    ELSE "unknown"

\* The dispatcher between two commands.  was, n0, g0, m0 and p0 remember
\* what the command found: self.streaming, the number of broadcast threads
\* started, the StreamingOutput, the number of calls of set_motor_speeds
\* and the channel values.
DispIdle ==
    [pc |-> "poll", item |-> Nil, resp |-> NoResp, it |-> NoIter,
     attempt |-> 1, s |-> 0, was |-> FALSE, n0 |-> 0, g0 |-> 0, m0 |-> 0,
     p0 |-> [c \in 0..7 |-> 0], gone |-> FALSE]

\* A handler has returned `r`: send it (in the try block).
DispRespond(r) ==
    [disp EXCEPT !.pc = "send_iter", !.resp = r, !.attempt = 1]

\* An exception reached `except Exception as e` of parse_and_execute_command:
\* the ERROR response is sent from the except block.
DispExcept(msg) ==
    [disp EXCEPT !.pc = "send_iter", !.resp = Resp("ERROR", msg), !.attempt = 2]

\* process_commands: while self.running:
DispLoop ==
    /\ disp.pc = "loop"
    /\ disp' = [disp EXCEPT !.pc = IF car_running THEN "poll" ELSE "exit"]
    /\ UNCHANGED <<car_running, streaming, video_thread, main, bthreads>>
    /\ UNCHANGED <<netVars, camVars, motorVars, histVars>>

\* A queue that hands out its newest record first (the sensitivity variant
\* of C22).
DispPoll_Lifo ==
    /\ disp.pc = "poll"
    /\ IF message_queue = <<>>
       THEN /\ disp' = [disp EXCEPT !.pc = "loop"]
            /\ UNCHANGED message_queue
       ELSE /\ disp' = [disp EXCEPT !.pc = "exec",
                                    !.item = message_queue[Len(message_queue)]]
            /\ message_queue' = SubSeq(message_queue, 1, Len(message_queue) - 1)
    /\ UNCHANGED <<running, command_clients, video_clients, csock, vsock,
                   cmd_acc, vid_acc, listen>>
    /\ UNCHANGED <<car_running, streaming, video_thread, main, bthreads>>
    /\ UNCHANGED <<camVars, motorVars, histVars>>

\* while not queue.empty(): client_address, command_text = queue.get()
\* (time.sleep(0.01) and back to the outer loop when it is empty)
DispPoll ==
    /\ disp.pc = "poll"
    /\ IF message_queue = <<>>
       THEN /\ disp' = [disp EXCEPT !.pc = "loop"]
            /\ UNCHANGED message_queue
       ELSE /\ disp' = [disp EXCEPT !.pc = "exec", !.item = Head(message_queue)]
            /\ message_queue' = Tail(message_queue)
    /\ UNCHANGED <<running, command_clients, video_clients, csock, vsock,
                   cmd_acc, vid_acc, listen>>
    /\ UNCHANGED <<car_running, streaming, video_thread, main, bthreads>>
    /\ UNCHANGED <<camVars, motorVars, histVars>>

\* A START branch that does not look at the flag (the sensitivity variant of
\* C5).
NotStreaming_Always == TRUE

\* if not self.streaming:  (the START branch of handle_stream_command)
NotStreaming == ~streaming

\* handle_stream_command; `d` is the dispatcher at the call, `respond` the
\* dispatcher once the handler has returned a response.  START and STOP go on
\* in start_video_streaming / stop_video_streaming, whose first statements
\* (the test of self.streaming and its assignment) are part of this step: no
\* other thread sets the flag to the value that would make the test fail.
handle_stream_command(d, args) ==
    LET action == StreamAction(args)
        respond(r) == [d EXCEPT !.pc = "send_iter", !.resp = r, !.attempt = 1]
    IN  IF action = "missing"
        THEN /\ disp' = respond(Resp("ERROR", "Missing streaming command (START/STOP)"))
             /\ UNCHANGED streaming
        ELSE IF action = "unknown"
        THEN /\ disp' = respond(RespArg("ERROR", "Unknown streaming command",
                                        Upper(args[1])))
             /\ UNCHANGED streaming
        ELSE IF action = "start"
        THEN IF NotStreaming
             THEN /\ streaming' = TRUE
                  /\ disp' = [d EXCEPT !.pc = "start_cam"]
             ELSE /\ disp' = respond(Resp("OK", "STREAM#ALREADY_RUNNING"))
                  /\ UNCHANGED streaming
        ELSE IF streaming
             THEN /\ streaming' = FALSE
                  /\ disp' = [d EXCEPT !.pc = "svs_chk"]
             ELSE /\ disp' = respond(Resp("OK", "STREAM#NOT_RUNNING"))
                  /\ UNCHANGED streaming

\* parse_and_execute_command up to the handler's return.
DispExec ==
    /\ disp.pc = "exec"
    /\ LET command == Command(disp.item.text)
           args == Args(disp.item.text)
           d == [disp EXCEPT !.was = streaming, !.n0 = Len(bthreads), !.g0 = cam.gen,
                             !.m0 = Len(motorCalls), !.p0 = pwm]
           respond(r) == [d EXCEPT !.pc = "send_iter", !.resp = r, !.attempt = 1]
       IN  IF command = V_MOTOR
           THEN LET m == handle_motor_command(args)
                IN  /\ disp' = respond(m.resp)
                    /\ IF m.calls = <<>> THEN UNCHANGED motorVars
                       ELSE MotorCall(m.calls[1])
                    /\ UNCHANGED streaming
           ELSE IF command = V_STOP
           THEN /\ disp' = respond(Resp("OK", "STOP"))
                /\ MotorCall(<<0, 0, 0, 0>>)
                /\ UNCHANGED streaming
           ELSE IF command = V_STATUS
           THEN /\ disp' = [d EXCEPT !.pc = "st_streaming",
                                      !.resp = StatusResp([StatusUnread EXCEPT
                                                   !.running = car_running])]
                /\ UNCHANGED <<motorVars, streaming>>
           ELSE IF command = V_STREAM
           THEN /\ handle_stream_command(d, args)
                /\ UNCHANGED motorVars
           ELSE /\ disp' = respond(RespArg("ERROR", "Unknown command", command))
                /\ UNCHANGED <<motorVars, streaming>>
    /\ UNCHANGED <<car_running, video_thread, main, bthreads>>
    /\ UNCHANGED <<netVars, camVars, histVars>>

\* handle_status_command: "streaming": self.streaming,
DispStatusStreaming ==
    /\ disp.pc = "st_streaming"
    /\ disp' = [disp EXCEPT !.pc = "st_video",
                            !.resp.status[1].streaming = streaming]
    /\ UNCHANGED <<car_running, streaming, video_thread, main, bthreads>>
    /\ UNCHANGED <<netVars, camVars, motorVars, histVars>>

\* "video_clients": self.tcp_server.has_video_clients(),
DispStatusVideo ==
    /\ disp.pc = "st_video"
    /\ disp' = [disp EXCEPT !.pc = "st_command",
                            !.resp.status[1].video_clients = has_video_clients]
    /\ UNCHANGED <<car_running, streaming, video_thread, main, bthreads>>
    /\ UNCHANGED <<netVars, camVars, motorVars, histVars>>

\* "command_clients": self.tcp_server.has_command_clients();
\* return f"STATUS#{json.dumps(status)}"
DispStatusCommand ==
    /\ disp.pc = "st_command"
    /\ disp' = [disp EXCEPT !.pc = "send_iter", !.attempt = 1,
                            !.resp.status[1].command_clients = has_command_clients]
    /\ UNCHANGED <<car_running, streaming, video_thread, main, bthreads>>
    /\ UNCHANGED <<netVars, camVars, motorVars, histVars>>

\* ------------------------------------------------ the broadcast threads
\* What the iteration of a dict raises when another thread has changed it.
ChangedSize == "RuntimeError: dictionary changed size during iteration"

NewThread ==
    [pc |-> "loop", frame |-> 0, gen |-> 0, it |-> NoIter, rm |-> <<>>,
     s |-> 0, got |-> <<>>, w0 |-> FALSE, err |-> ""]

Threads == 1..Len(bthreads)

\* Thread.join(timeout=2.0) returns: the thread has ended, or it sits in a
\* call that can block for longer than the timeout.
JoinReturns(t) ==
    bthreads[t].pc \in {"done", "crashed", "waiting", "vd_send1", "vd_send2"}

\* command_thread.join(timeout=2.0), likewise.
DispJoinReturns == disp.pc \in {"exit", "crashed", "svs_join", "send_write"}

\* No thread holds the lock of the condition of StreamingOutput `g`.
LockFree(g) == \A t \in Threads : ~(bthreads[t].pc = "gf_wait" /\ bthreads[t].gen = g)

\* --------------------------------- start_video_streaming (the dispatcher)
\* camera.start_streaming(): a new StreamingOutput, the encoder started on it
DispStartCam ==
    /\ disp.pc = "start_cam"
    /\ IF cam.is_streaming
       THEN /\ disp' = [disp EXCEPT !.pc = "start_thread"]
            /\ UNCHANGED cam
       ELSE /\ cam' = [cam EXCEPT !.gen = @ + 1, !.frame = 0, !.encoder = TRUE]
            /\ disp' = [disp EXCEPT !.pc = "start_cam2"]
    /\ UNCHANGED <<car_running, streaming, video_thread, main, bthreads>>
    /\ UNCHANGED <<netVars, published, motorVars, histVars>>

\* self.is_streaming = True
DispStartCam2 ==
    /\ disp.pc = "start_cam2"
    /\ cam' = [cam EXCEPT !.is_streaming = TRUE]
    /\ disp' = [disp EXCEPT !.pc = "start_thread"]
    /\ UNCHANGED <<car_running, streaming, video_thread, main, bthreads>>
    /\ UNCHANGED <<netVars, published, motorVars, histVars>>

\* self.video_thread = threading.Thread(target=self.stream_video_frames);
\* start(); return "OK#STREAM#STARTED"
DispStartThread ==
    /\ disp.pc = "start_thread"
    /\ bthreads' = Append(bthreads, NewThread)
    /\ video_thread' = Len(bthreads) + 1
    /\ disp' = DispRespond(Resp("OK", "STREAM#STARTED"))
    /\ UNCHANGED <<car_running, streaming, main>>
    /\ UNCHANGED <<netVars, camVars, motorVars, histVars>>

\* ---------------------------------- stop_video_streaming (the dispatcher)
\* if self.video_thread:
DispSvsChk ==
    /\ disp.pc = "svs_chk"
    /\ disp' = [disp EXCEPT !.pc = IF video_thread = 0 THEN "svs_cam" ELSE "svs_join"]
    /\ UNCHANGED <<car_running, streaming, video_thread, main, bthreads>>
    /\ UNCHANGED <<netVars, camVars, motorVars, histVars>>

\* self.video_thread.join(timeout=2.0): AttributeError when another caller
\* of stop_video_streaming has set video_thread to None since the test.
DispSvsJoin ==
    /\ disp.pc = "svs_join"
    /\ video_thread # 0 => JoinReturns(video_thread)
    /\ disp' = IF video_thread = 0
               THEN DispExcept("'NoneType' object has no attribute 'join'")
               ELSE [disp EXCEPT !.pc = "svs_none"]
    /\ UNCHANGED <<car_running, streaming, video_thread, main, bthreads>>
    /\ UNCHANGED <<netVars, camVars, motorVars, histVars>>

\* self.video_thread = None
DispSvsNone ==
    /\ disp.pc = "svs_none"
    /\ video_thread' = 0
    /\ disp' = [disp EXCEPT !.pc = "svs_cam"]
    /\ UNCHANGED <<car_running, streaming, main, bthreads>>
    /\ UNCHANGED <<netVars, camVars, motorVars, histVars>>

\* camera.stop_streaming(): if not self.is_streaming: return; stop_encoder()
DispSvsCam ==
    /\ disp.pc = "svs_cam"
    /\ IF cam.is_streaming
       THEN /\ cam' = [cam EXCEPT !.encoder = FALSE]
            /\ disp' = [disp EXCEPT !.pc = "svs_cam2"]
       ELSE /\ disp' = DispRespond(Resp("OK", "STREAM#STOPPED"))
            /\ UNCHANGED cam
    /\ UNCHANGED <<car_running, streaming, video_thread, main, bthreads>>
    /\ UNCHANGED <<netVars, published, motorVars, histVars>>

\* self.is_streaming = False; return "OK#STREAM#STOPPED"
DispSvsCam2 ==
    /\ disp.pc = "svs_cam2"
    /\ cam' = [cam EXCEPT !.is_streaming = FALSE]
    /\ disp' = DispRespond(Resp("OK", "STREAM#STOPPED"))
    /\ UNCHANGED <<car_running, streaming, video_thread, main, bthreads>>
    /\ UNCHANGED <<netVars, published, motorVars, histVars>>

\* ------------------------------------------------- send_command_response
\* if addr == client_address:
AddrMatches(s, client_address) == csock[s].addr = client_address

\* for client_socket, addr in self.command_clients.items():
\* (gone remembers whether the connection that sent the command had left the
\* registry when send_command_response was called)
DispSendIter ==
    /\ disp.pc = "send_iter"
    /\ disp' = [disp EXCEPT !.pc = "send_next", !.it = NewIter(command_clients),
                            !.gone = ~Has(command_clients, disp.item.from)]
    /\ UNCHANGED <<car_running, streaming, video_thread, main, bthreads>>
    /\ UNCHANGED <<netVars, camVars, motorVars, histVars>>

\* The next entry of the iteration.  A RuntimeError raised in the try block
\* of parse_and_execute_command is caught there and answered from the except
\* block; raised in the except block it leaves process_commands.
DispSendNext ==
    /\ disp.pc = "send_next"
    /\ LET n == IterNext(disp.it, command_clients)
       IN  disp' =
             IF n.kind = "error"
             THEN IF disp.attempt = 1
                  THEN DispExcept("dictionary changed size during iteration")
                  ELSE [disp EXCEPT !.pc = "crashed"]
             ELSE IF n.kind = "stop"
             THEN DispIdle
             ELSE IF AddrMatches(n.s, disp.item.addr)
             THEN [disp EXCEPT !.pc = "send_write", !.s = n.s, !.it = n.it]
             ELSE [disp EXCEPT !.it = n.it]
    /\ UNCHANGED <<car_running, streaming, video_thread, main, bthreads>>
    /\ UNCHANGED <<netVars, camVars, motorVars, histVars>>

\* client_socket.sendall(response.encode('utf-8')); return True, or the
\* exception of a closed or broken connection caught and return False
DispSendWrite ==
    /\ disp.pc = "send_write"
    /\ \E ok \in (IF csock[disp.s].open THEN BOOLEAN ELSE {FALSE}) :
          cwritten' = IF ok
                      THEN Append(cwritten, [to |-> disp.s, from |-> disp.item.from,
                                             resp |-> disp.resp, n |-> disp.item.n])
                      ELSE cwritten
    /\ disp' = DispIdle
    /\ UNCHANGED <<car_running, streaming, video_thread, main, bthreads>>
    /\ UNCHANGED <<netVars, camVars, motorVars, vwritten, rejected, sent>>

\* --------------------------------------------------- stream_video_frames
\* while self.streaming and self.running:
BLoop(t) ==
    /\ bthreads[t].pc = "loop"
    /\ bthreads' = [bthreads EXCEPT ![t].pc =
                       IF streaming /\ car_running THEN "has" ELSE "done"]
    /\ UNCHANGED <<car_running, streaming, video_thread, disp, main>>
    /\ UNCHANGED <<netVars, camVars, motorVars, histVars>>

\* if not self.tcp_server.has_video_clients(): time.sleep(0.1); continue
BHas(t) ==
    /\ bthreads[t].pc = "has"
    /\ bthreads' = [bthreads EXCEPT ![t].pc =
                       IF Size(video_clients) > 0 THEN "gf" ELSE "loop"]
    /\ UNCHANGED <<car_running, streaming, video_thread, disp, main>>
    /\ UNCHANGED <<netVars, camVars, motorVars, histVars>>

\* Camera.get_frame: if not self.is_streaming: return None
BGetFrame(t) ==
    /\ bthreads[t].pc = "gf"
    /\ bthreads' = [bthreads EXCEPT ![t].pc =
                       IF cam.is_streaming THEN "gf_with" ELSE "loop"]
    /\ UNCHANGED <<car_running, streaming, video_thread, disp, main>>
    /\ UNCHANGED <<netVars, camVars, motorVars, histVars>>

\* with self.streaming_output.condition:
BWith(t) ==
    /\ bthreads[t].pc = "gf_with"
    /\ LockFree(cam.gen)
    /\ bthreads' = [bthreads EXCEPT ![t].pc = "gf_wait", ![t].gen = cam.gen]
    /\ UNCHANGED <<car_running, streaming, video_thread, disp, main>>
    /\ UNCHANGED <<netVars, camVars, motorVars, histVars>>

\* self.streaming_output.condition.wait(): the lock is released and the
\* thread blocks until a notify; RuntimeError (cannot wait on un-acquired
\* lock) when streaming_output has been replaced since the with statement.
BWait(t) ==
    /\ bthreads[t].pc = "gf_wait"
    /\ bthreads' = IF cam.gen = bthreads[t].gen
                   THEN [bthreads EXCEPT ![t].pc = "waiting",
                                         ![t].w0 = @ \/ published = 0]
                   ELSE [bthreads EXCEPT ![t].pc = "crashed",
                                          ![t].err = "RuntimeError: cannot wait on un-acquired lock"]
    /\ UNCHANGED <<car_running, streaming, video_thread, disp, main>>
    /\ UNCHANGED <<netVars, camVars, motorVars, histVars>>

\* wait() returns with the lock held again; return self.streaming_output.frame;
\* back in stream_video_frames: if frame: send_video_data(frame)
BWake(t) ==
    /\ bthreads[t].pc = "woken"
    /\ LockFree(bthreads[t].gen)
    /\ bthreads' = IF cam.frame # 0
                   THEN [bthreads EXCEPT ![t].pc = "vd_check", ![t].frame = cam.frame,
                                         ![t].got = Append(@, cam.frame)]
                   ELSE [bthreads EXCEPT ![t].pc = "loop", ![t].frame = 0]
    /\ UNCHANGED <<car_running, streaming, video_thread, disp, main>>
    /\ UNCHANGED <<netVars, camVars, motorVars, histVars>>

\* StreamingOutput.write, called by the encoder for each frame: the frame is
\* stored and every thread waiting on the condition is notified.
CamWrite ==
    /\ cam.encoder
    /\ published < MaxFrames
    /\ LockFree(cam.gen)
    /\ published' = published + 1
    /\ cam' = [cam EXCEPT !.frame = published + 1]
    /\ bthreads' = [t \in Threads |->
                      IF bthreads[t].pc = "waiting" /\ bthreads[t].gen = cam.gen
                      THEN [bthreads[t] EXCEPT !.pc = "woken"]
                      ELSE bthreads[t]]
    /\ UNCHANGED <<car_running, streaming, video_thread, disp, main>>
    /\ UNCHANGED <<netVars, motorVars, histVars>>

\* -------------------------------------------------------- send_video_data
\* len(frame_data) of the frames the encoder produces, by frame number (a
\* JPEG frame is never empty, and stream_video_frames passes no empty frame:
\* `if frame:`).
FrameLen(f) ==
    CASE f = 1 -> 1
      [] f = 2 -> 65536
      [] OTHER -> 255 + f

\* struct.pack with the byte order reversed (the sensitivity variant of the
\* framing).
pack_BE(size) ==
    << (size \div 16777216) % 256, (size \div 65536) % 256,
       (size \div 256) % 256, size % 256 >>

\* struct.pack('<L', size): 4 bytes, least significant first
pack_LE(size) ==
    << size % 256, (size \div 256) % 256,
       (size \div 65536) % 256, (size \div 16777216) % 256 >>

\* if not self.video_clients: return False
BVdCheck(t) ==
    /\ bthreads[t].pc = "vd_check"
    /\ bthreads' = [bthreads EXCEPT ![t].pc =
                       IF Size(video_clients) = 0 THEN "loop" ELSE "vd_iter"]
    /\ UNCHANGED <<car_running, streaming, video_thread, disp, main>>
    /\ UNCHANGED <<netVars, camVars, motorVars, histVars>>

\* clients_to_remove = []; for client_socket, ... in self.video_clients.items():
BVdIter(t) ==
    /\ bthreads[t].pc = "vd_iter"
    /\ bthreads' = [bthreads EXCEPT ![t].pc = "vd_next", ![t].rm = <<>>,
                                    ![t].it = NewIter(video_clients)]
    /\ UNCHANGED <<car_running, streaming, video_thread, disp, main>>
    /\ UNCHANGED <<netVars, camVars, motorVars, histVars>>

\* The next entry of the iteration; its RuntimeError is caught nowhere and
\* ends the thread.  After the last entry: the removals, return True, sleep.
BVdNext(t) ==
    /\ bthreads[t].pc = "vd_next"
    /\ LET n == IterNext(bthreads[t].it, video_clients)
       IN  bthreads' =
             IF n.kind = "error"
             THEN [bthreads EXCEPT ![t].pc = "crashed",
                     ![t].err = ChangedSize]
             ELSE IF n.kind = "stop"
             THEN [bthreads EXCEPT ![t].pc =
                      IF bthreads[t].rm = <<>> THEN "loop" ELSE "vd_rm"]
             ELSE [bthreads EXCEPT ![t].pc = "vd_send1", ![t].s = n.s, ![t].it = n.it]
    /\ UNCHANGED <<car_running, streaming, video_thread, disp, main>>
    /\ UNCHANGED <<netVars, camVars, motorVars, histVars>>

\* client_socket.sendall(size_data); on an exception the client is listed
\* for removal
BVdSend1(t) ==
    /\ bthreads[t].pc = "vd_send1"
    /\ \E ok \in (IF vsock[bthreads[t].s].open THEN BOOLEAN ELSE {FALSE}) :
          IF ok
          THEN /\ vwritten' = Append(vwritten, [to |-> bthreads[t].s, part |-> "size",
                                                frame |-> bthreads[t].frame, by |-> t,
                                                head |-> pack_LE(FrameLen(bthreads[t].frame)),
                                                len |-> 4])
               /\ bthreads' = [bthreads EXCEPT ![t].pc = "vd_send2"]
          ELSE /\ bthreads' = [bthreads EXCEPT ![t].pc = "vd_next",
                                               ![t].rm = Append(@, bthreads[t].s)]
               /\ UNCHANGED vwritten
    /\ UNCHANGED <<car_running, streaming, video_thread, disp, main>>
    /\ UNCHANGED <<netVars, camVars, motorVars, cwritten, rejected, sent>>

\* client_socket.sendall(frame_data)
BVdSend2(t) ==
    /\ bthreads[t].pc = "vd_send2"
    /\ \E ok \in (IF vsock[bthreads[t].s].open THEN BOOLEAN ELSE {FALSE}) :
          IF ok
          THEN /\ vwritten' = Append(vwritten, [to |-> bthreads[t].s, part |-> "data",
                                                frame |-> bthreads[t].frame, by |-> t,
                                                head |-> <<>>,
                                                len |-> FrameLen(bthreads[t].frame)])
               /\ bthreads' = [bthreads EXCEPT ![t].pc = "vd_next"]
          ELSE /\ bthreads' = [bthreads EXCEPT ![t].pc = "vd_next",
                                               ![t].rm = Append(@, bthreads[t].s)]
               /\ UNCHANGED vwritten
    /\ UNCHANGED <<car_running, streaming, video_thread, disp, main>>
    /\ UNCHANGED <<netVars, camVars, motorVars, cwritten, rejected, sent>>

\* for client_socket in clients_to_remove: client_address =
\* self.video_clients[client_socket]; del ...; client_socket.close()
\* KeyError, caught nowhere, when the entry has gone.
BVdRemove(t) ==
    /\ bthreads[t].pc = "vd_rm"
    /\ LET s == Head(bthreads[t].rm)
           rest == Tail(bthreads[t].rm)
       IN  IF Has(video_clients, s)
           THEN /\ video_clients' = Delete(video_clients, s)
                /\ vsock' = CloseSock(vsock, s)
                /\ bthreads' = [bthreads EXCEPT ![t].rm = rest,
                                   ![t].pc = IF rest = <<>> THEN "loop" ELSE "vd_rm"]
           ELSE /\ bthreads' = [bthreads EXCEPT ![t].pc = "crashed", ![t].err = "KeyError"]
                /\ UNCHANGED <<video_clients, vsock>>
    /\ UNCHANGED <<running, command_clients, message_queue, csock, cmd_acc,
                   vid_acc, listen>>
    /\ UNCHANGED <<car_running, streaming, video_thread, disp, main>>
    /\ UNCHANGED <<camVars, motorVars, histVars>>

\* -------------------------------------------------------- the main thread
\* SIGINT / SIGTERM: the handler installed last is TCPServer.signal_handler
\* (start_server runs after LaneFollowingCar.__init__): stop_server(), then
\* sys.exit(0), whose SystemExit runs the finally block of __main__: car.stop().
MainSignal ==
    /\ main.pc = "run"
    /\ main' = [main EXCEPT !.pc = "ss_run", !.ret = "st_run"]
    /\ UNCHANGED <<car_running, streaming, video_thread, disp, bthreads>>
    /\ UNCHANGED <<netVars, camVars, motorVars, histVars>>

\* stop_server: self.running = False
StopServerRun ==
    /\ main.pc = "ss_run"
    /\ running' = FALSE
    /\ main' = [main EXCEPT !.pc = "ss_cclose"]
    /\ UNCHANGED <<command_clients, video_clients, message_queue, csock, vsock,
                   cmd_acc, vid_acc, listen>>
    /\ UNCHANGED <<car_running, streaming, video_thread, disp, bthreads>>
    /\ UNCHANGED <<camVars, motorVars, histVars>>

\* for client_socket in list(self.command_clients.keys()): close()
StopServerCloseCmd ==
    /\ main.pc = "ss_cclose"
    /\ csock' = CloseAll(csock, Keys(command_clients))
    /\ main' = [main EXCEPT !.pc = "ss_cclear"]
    /\ UNCHANGED <<running, command_clients, video_clients, message_queue, vsock,
                   cmd_acc, vid_acc, listen>>
    /\ UNCHANGED <<car_running, streaming, video_thread, disp, bthreads>>
    /\ UNCHANGED <<camVars, motorVars, histVars>>

\* self.command_clients.clear()
StopServerClearCmd ==
    /\ main.pc = "ss_cclear"
    /\ command_clients' = <<>>
    /\ main' = [main EXCEPT !.pc = "ss_vclose"]
    /\ UNCHANGED <<running, video_clients, message_queue, csock, vsock,
                   cmd_acc, vid_acc, listen>>
    /\ UNCHANGED <<car_running, streaming, video_thread, disp, bthreads>>
    /\ UNCHANGED <<camVars, motorVars, histVars>>

\* for client_socket in list(self.video_clients.keys()): close()
StopServerCloseVid ==
    /\ main.pc = "ss_vclose"
    /\ vsock' = CloseAll(vsock, Keys(video_clients))
    /\ main' = [main EXCEPT !.pc = "ss_vclear"]
    /\ UNCHANGED <<running, command_clients, video_clients, message_queue, csock,
                   cmd_acc, vid_acc, listen>>
    /\ UNCHANGED <<car_running, streaming, video_thread, disp, bthreads>>
    /\ UNCHANGED <<camVars, motorVars, histVars>>

\* self.video_clients.clear()
StopServerClearVid ==
    /\ main.pc = "ss_vclear"
    /\ video_clients' = <<>>
    /\ main' = [main EXCEPT !.pc = "ss_listen"]
    /\ UNCHANGED <<running, command_clients, message_queue, csock, vsock,
                   cmd_acc, vid_acc, listen>>
    /\ UNCHANGED <<car_running, streaming, video_thread, disp, bthreads>>
    /\ UNCHANGED <<camVars, motorVars, histVars>>

\* self.command_socket.close(); self.video_socket.close(); return
StopServerListen ==
    /\ main.pc = "ss_listen"
    /\ listen' = [cmd |-> FALSE, vid |-> FALSE]
    /\ main' = [main EXCEPT !.pc = main.ret]
    /\ UNCHANGED <<running, command_clients, video_clients, message_queue, csock,
                   vsock, cmd_acc, vid_acc>>
    /\ UNCHANGED <<car_running, streaming, video_thread, disp, bthreads>>
    /\ UNCHANGED <<camVars, motorVars, histVars>>

\* LaneFollowingCar.stop: self.running = False
StopRun ==
    /\ main.pc = "st_run"
    /\ car_running' = FALSE
    /\ main' = [main EXCEPT !.pc = "st_stream"]
    /\ UNCHANGED <<streaming, video_thread, disp, bthreads>>
    /\ UNCHANGED <<netVars, camVars, motorVars, histVars>>

\* if self.streaming: self.stop_video_streaming()  (self.streaming = False)
StopStream ==
    /\ main.pc = "st_stream"
    /\ streaming' = FALSE
    /\ main' = [main EXCEPT !.pc = IF streaming THEN "svs_chk" ELSE "st_motor"]
    /\ UNCHANGED <<car_running, video_thread, disp, bthreads>>
    /\ UNCHANGED <<netVars, camVars, motorVars, histVars>>

\* stop_video_streaming: if self.video_thread:
StopSvsChk ==
    /\ main.pc = "svs_chk"
    /\ main' = [main EXCEPT !.pc = IF video_thread = 0 THEN "svs_cam" ELSE "svs_join"]
    /\ UNCHANGED <<car_running, streaming, video_thread, disp, bthreads>>
    /\ UNCHANGED <<netVars, camVars, motorVars, histVars>>

\* self.video_thread.join(timeout=2.0); an AttributeError leaves stop()
StopSvsJoin ==
    /\ main.pc = "svs_join"
    /\ video_thread # 0 => JoinReturns(video_thread)
    /\ main' = [main EXCEPT !.pc = IF video_thread = 0 THEN "crashed" ELSE "svs_none"]
    /\ UNCHANGED <<car_running, streaming, video_thread, disp, bthreads>>
    /\ UNCHANGED <<netVars, camVars, motorVars, histVars>>

\* self.video_thread = None
StopSvsNone ==
    /\ main.pc = "svs_none"
    /\ video_thread' = 0
    /\ main' = [main EXCEPT !.pc = "svs_cam"]
    /\ UNCHANGED <<car_running, streaming, disp, bthreads>>
    /\ UNCHANGED <<netVars, camVars, motorVars, histVars>>

\* camera.stop_streaming(): if not self.is_streaming: return; stop_encoder()
StopSvsCam ==
    /\ main.pc = "svs_cam"
    /\ IF cam.is_streaming
       THEN /\ cam' = [cam EXCEPT !.encoder = FALSE]
            /\ main' = [main EXCEPT !.pc = "svs_cam2"]
       ELSE /\ main' = [main EXCEPT !.pc = "st_motor"]
            /\ UNCHANGED cam
    /\ UNCHANGED <<car_running, streaming, video_thread, disp, bthreads>>
    /\ UNCHANGED <<netVars, published, motorVars, histVars>>

\* self.is_streaming = False
StopSvsCam2 ==
    /\ main.pc = "svs_cam2"
    /\ cam' = [cam EXCEPT !.is_streaming = FALSE]
    /\ main' = [main EXCEPT !.pc = "st_motor"]
    /\ UNCHANGED <<car_running, streaming, video_thread, disp, bthreads>>
    /\ UNCHANGED <<netVars, published, motorVars, histVars>>

\* The PCA9685 has been released: MotorController.close() has run, which
\* only the end of a stop() does, and `initialized` stays as it was.
BusClosed == main.again

\* What a call of set_motor_speeds by the main thread can do: return, or,
\* on an initialized controller whose PCA9685 was closed, raise as well (the
\* write goes to a bus that was released; close() itself expects pwm calls
\* to raise and guards its own).
MotorWriteOutcomes == IF initialized /\ BusClosed THEN {"ok", "raise"} ELSE {"ok"}

\* self.motor_controller.stop()
StopMotor ==
    /\ main.pc = "st_motor"
    /\ \E o \in MotorWriteOutcomes :
          IF o = "ok"
          THEN /\ MotorCall(<<0, 0, 0, 0>>)
               /\ main' = [main EXCEPT !.pc = "st_join"]
          ELSE /\ main' = [main EXCEPT !.pc = "crashed"]
               /\ UNCHANGED motorVars
    /\ UNCHANGED <<car_running, streaming, video_thread, disp, bthreads>>
    /\ UNCHANGED <<netVars, camVars, histVars>>

\* self.command_thread.join(timeout=2.0); self.tcp_server.stop_server()
StopJoin ==
    /\ main.pc = "st_join"
    /\ DispJoinReturns
    /\ main' = [main EXCEPT !.pc = "ss_run", !.ret = "st_camclose"]
    /\ UNCHANGED <<car_running, streaming, video_thread, disp, bthreads>>
    /\ UNCHANGED <<netVars, camVars, motorVars, histVars>>

\* self.camera.close(): stop_streaming() if still streaming, camera.close()
StopCameraClose ==
    /\ main.pc = "st_camclose"
    /\ cam' = [cam EXCEPT !.is_streaming = FALSE, !.encoder = FALSE]
    /\ main' = [main EXCEPT !.pc = "st_motorclose"]
    /\ UNCHANGED <<car_running, streaming, video_thread, disp, bthreads>>
    /\ UNCHANGED <<netVars, published, motorVars, histVars>>

\* self.motor_controller.close(): if self.initialized: self.stop(); pwm.close()
StopMotorClose ==
    /\ main.pc = "st_motorclose"
    /\ \E o \in MotorWriteOutcomes :
          IF o = "ok"
          THEN /\ IF initialized THEN MotorCall(<<0, 0, 0, 0>>)
                  ELSE UNCHANGED motorVars
               /\ main' = [main EXCEPT !.pc = "stopped"]
          ELSE /\ main' = [main EXCEPT !.pc = "crashed"]
               /\ UNCHANGED motorVars
    /\ UNCHANGED <<car_running, streaming, video_thread, disp, bthreads>>
    /\ UNCHANGED <<netVars, camVars, histVars>>

\* stop() is called again once it has returned.
StopAgain ==
    /\ main.pc = "stopped"
    /\ ~main.again
    /\ main' = [main EXCEPT !.pc = "st_run", !.again = TRUE]
    /\ UNCHANGED <<car_running, streaming, video_thread, disp, bthreads>>
    /\ UNCHANGED <<netVars, camVars, motorVars, histVars>>

\* ------------------------------------------------------------------ inputs
T_STATUS == <<"S", "T", "A", "T", "U", "S">>

T_START == <<"S", "T", "R", "E", "A", "M", "#", "S", "T", "A", "R", "T">>

T_STOP == <<"s", "t", "r", "e", "a", "m", "#", "s", "t", "o", "p", "\n">>

T_MOTOR == <<"M", "O", "T", "O", "R", "#", "1", "0", "#", "-", "1", "0", "#", "0", "#", "7">>

T_FOO == <<"F", "O", "O">>

\* What a client sends that did not build its text with MotorText.
Plain(texts) == {[text |-> t, margs |-> <<>>] : t \in texts}

NetTexts == Plain({T_STATUS, T_MOTOR, T_FOO})

\* Argument texts int() accepts, with their values, and texts it rejects.
IntToks == {<<"-", "4", "0", "9", "5">>, <<"4", "0", "9", "5">>, <<" ", "0">>}

TokVal(tok) ==
    CASE tok = <<"-", "4", "0", "9", "5">> -> 0 - DUTY_MAX
      [] tok = <<"4", "0", "9", "5">> -> DUTY_MAX
      [] tok = <<" ", "0">> -> 0

BadToks == {<<"x">>, <<>>}

\* The spellings of the verb and the line endings a client sends.
Envelopes == {[verb |-> <<"M", "O", "T", "O", "R">>, ending |-> <<>>],
              [verb |-> <<"m", "o", "t", "o", "r">>, ending |-> <<"\n">>]}

RECURSIVE HashArgs(_)
HashArgs(args) ==
    IF args = <<>> THEN <<>> ELSE <<"#">> \o Head(args) \o HashArgs(Tail(args))

\* The text of a MOTOR command with the arguments `args`.
MotorText(env, args) == env.verb \o HashArgs(args) \o env.ending

Tuples(n, toks) == [1..n -> toks]

\* MOTOR commands: 4 arguments, integers or not, and 0 to MaxArgs integers.
MotorTexts ==
    {[text |-> MotorText(env, args), margs |-> args] :
         env \in Envelopes,
         args \in Tuples(4, IntToks \cup BadToks)
                    \cup UNION {Tuples(n, IntToks) : n \in 0..MaxArgs}}

StreamTexts == Plain({T_START, T_STOP})

\* ------------------------------------------------------------ specification
\* The state once LaneFollowingCar() is constructed and start() has returned,
\* and then: the command connections `cs` accepted with `cc` the command
\* registry, the video connections `vs` with `vc` the video registry, and,
\* when `on`, a STREAM#START carried out (the camera streams to a first
\* StreamingOutput and one broadcast thread has been started).
Started(cs, cc, vs, vc, on) ==
    /\ running = TRUE
    /\ command_clients = cc
    /\ video_clients = vc
    /\ message_queue = <<>>
    /\ csock = cs
    /\ vsock = vs
    /\ cmd_acc = [pc |-> "loop", s |-> 0]
    /\ vid_acc = [pc |-> "loop", s |-> 0]
    /\ listen = [cmd |-> TRUE, vid |-> TRUE]
    /\ car_running = TRUE
    /\ streaming = on
    /\ video_thread = IF on THEN 1 ELSE 0
    /\ disp = [DispIdle EXCEPT !.pc = "loop"]
    /\ main = [pc |-> "run", ret |-> "", again |-> FALSE]
    /\ bthreads = IF on THEN <<NewThread>> ELSE <<>>
    /\ cam = [is_streaming |-> on, encoder |-> on, gen |-> IF on THEN 1 ELSE 0,
              frame |-> 0]
    /\ published = 0
    /\ initialized \in BOOLEAN
    /\ pwm = [c \in 0..7 |-> 0]
    /\ motorCalls = <<>>
    /\ cwritten = <<>>
    /\ vwritten = <<>>
    /\ rejected = {}
    /\ sent = 0

\* A command connection as handle_command_clients leaves it once registered.
Client(a) == [addr |-> a, open |-> TRUE, rd |-> "start"]

\* A video connection as handle_video_clients leaves it once registered.
Viewer(a) == [addr |-> a, open |-> TRUE]

\* start() has returned and no client has connected yet.
Init == Started(<<>>, <<>>, <<>>, <<>>, FALSE)

CmdAcceptLoop ==
    \/ CmdAccLoop \/ CmdAccept \/ CmdAcceptNone \/ CmdAccCheck
    \/ CmdAccRegister

VidAcceptLoop ==
    \/ VidAccLoop \/ VidAccept \/ VidAcceptNone \/ VidAccCheck \/ VidAccRegister

Reader(msgs, limit) ==
    \E s \in 1..Len(csock) :
        \/ ReaderStart(s) \/ ReaderLoop(s) \/ ReaderRecv(s, msgs, limit)
        \/ ReaderRecvEnd(s) \/ ReaderDel(s) \/ ReaderClose(s)

Dispatcher ==
    \/ DispLoop \/ DispPoll \/ DispExec
    \/ DispSendIter \/ DispSendNext \/ DispSendWrite

DispatcherStatus ==
    \/ DispStatusStreaming \/ DispStatusVideo \/ DispStatusCommand

DispatcherStream ==
    \/ DispStartCam \/ DispStartCam2 \/ DispStartThread
    \/ DispSvsChk \/ DispSvsJoin \/ DispSvsNone \/ DispSvsCam \/ DispSvsCam2

Broadcast ==
    \E t \in Threads :
        \/ BLoop(t) \/ BHas(t) \/ BGetFrame(t) \/ BWith(t) \/ BWait(t) \/ BWake(t)
        \/ BVdCheck(t) \/ BVdIter(t) \/ BVdNext(t) \/ BVdSend1(t) \/ BVdSend2(t)
        \/ BVdRemove(t)

StopServer ==
    \/ StopServerRun \/ StopServerCloseCmd \/ StopServerClearCmd
    \/ StopServerCloseVid \/ StopServerClearVid \/ StopServerListen

Shutdown ==
    \/ MainSignal \/ StopServer
    \/ StopRun \/ StopStream \/ StopMotor \/ StopJoin \/ StopCameraClose
    \/ StopMotorClose

ShutdownStream ==
    \/ StopSvsChk \/ StopSvsJoin \/ StopSvsNone \/ StopSvsCam \/ StopSvsCam2

\* ---- Spec: the command channel from start() to the end of stop(), on a
\* board whose PCA9685 answered.
InitBoard == Init /\ initialized = TRUE

Next ==
    \/ CmdAcceptLoop \/ Reader(NetTexts, MaxCmds)
    \/ Dispatcher \/ DispatcherStatus \/ Shutdown

Spec == InitBoard /\ [][Next]_vars

\* C9: every command response is written only to the socket of the client
\* whose read loop enqueued the command that produced it.
C9_OnlyToSender ==
    \A i \in 1..Len(cwritten) : cwritten[i].to = cwritten[i].from

\* The weaker property the address test gives: a response goes to a socket
\* with the peer address of the connection that sent the command.
ToSenderAddress ==
    \A i \in 1..Len(cwritten) :
        csock[cwritten[i].to].addr = csock[cwritten[i].from].addr

\* C10: no failure raised while dispatching a command leaves
\* parse_and_execute_command: process_commands is in its loop for as long as
\* self.running is true.
C10_DispatchSurvives == car_running => disp.pc \notin {"crashed", "exit"}

\* A command connection whose read loop has ended.
Gone(a) == [addr |-> a, open |-> FALSE, rd |-> "done"]

\* ---- SpecReg: both listeners, the read loops and the broadcast loop while a
\* stream is on, up to the end of stop_server().  The command client that
\* turned the stream on has disconnected: its entry is deleted.
InitReg ==
    /\ Started(<<Gone(Addrs[1])>>, <<0>>, <<>>, <<>>, TRUE)
    /\ initialized = TRUE

NextReg ==
    \/ CmdAcceptLoop \/ VidAcceptLoop \/ Reader(Plain({T_STATUS}), MaxCmds)
    \/ Broadcast \/ CamWrite
    \/ MainSignal \/ StopServer

SpecReg == InitReg /\ [][NextReg]_vars

\* C1: in every reachable state the command registry and the video registry
\* each hold at most max_clients entries.
C1_RegistryBound ==
    /\ Size(command_clients) <= max_clients
    /\ Size(video_clients) <= max_clients

\* The video registry is full and a further video connection was turned away.
C1_Witness ==
    /\ Size(video_clients) = max_clients
    /\ \E r \in rejected : r[1] = "vid"

\* The connections the capacity check of a channel has closed.
RejectedCmd == {r[2] : r \in {x \in rejected : x[1] = "cmd"}}

RejectedVid == {r[2] : r \in {x \in rejected : x[1] = "vid"}}

\* A step of a listener that turns a connection away: the new socket is
\* closed and nothing else of the channel changes.
RejectStep ==
    /\ (cmd_acc.pc = "check" /\ cmd_acc' # cmd_acc
           /\ Size(command_clients) >= max_clients)
          => /\ command_clients' = command_clients
             /\ message_queue' = message_queue
             /\ Len(csock') = Len(csock)
             /\ \A i \in 1..Len(csock) : i # cmd_acc.s => csock'[i] = csock[i]
             /\ csock'[cmd_acc.s] = [csock[cmd_acc.s] EXCEPT !.open = FALSE]
    /\ (vid_acc.pc = "check" /\ vid_acc' # vid_acc
           /\ Size(video_clients) >= max_clients)
          => /\ video_clients' = video_clients
             /\ Len(vsock') = Len(vsock)
             /\ \A i \in 1..Len(vsock) : i # vid_acc.s => vsock'[i] = vsock[i]
             /\ vsock'[vid_acc.s] = [vsock[vid_acc.s] EXCEPT !.open = FALSE]

\* A connection turned away stays closed and unregistered, no read loop is
\* started for it and nothing is enqueued for it.
RejectedUntouched ==
    /\ \A s \in RejectedCmd :
          /\ ~csock[s].open
          /\ csock[s].rd = "none"
          /\ ~Has(command_clients, s)
          /\ \A i \in 1..Len(message_queue) : message_queue[i].from # s
    /\ \A s \in RejectedVid :
          /\ ~vsock[s].open
          /\ ~Has(video_clients, s)

\* C2: a connection that arrives while its channel's registry holds a client
\* is closed without being registered, read from, given a read loop or
\* enqueued for, and the registered client's entry and socket are unchanged.
C2_RejectLeavesSession == [][RejectStep]_vars /\ []RejectedUntouched

\* A command connection was turned away while the registered client's
\* connection is open and being read.
C2_Witness ==
    /\ RejectedCmd # {}
    /\ \E s \in 1..Len(csock) :
          Has(command_clients, s) /\ csock[s].open /\ csock[s].rd = "recv"

\* ---- SpecCam: one command client and one video client, STREAM commands,
\* the camera and the broadcast threads.
InitCam ==
    /\ Started(<<Client(Addrs[1])>>, <<1>>, <<Viewer(Addrs[1])>>, <<1>>, FALSE)
    /\ initialized = TRUE

NextCam ==
    \/ Reader(StreamTexts, MaxStreamCmds)
    \/ Dispatcher \/ DispatcherStream
    \/ Broadcast \/ CamWrite

SpecCam == InitCam /\ [][NextCam]_vars

\* The dispatcher holds a STREAM START command whose handler has returned.
StartHandled ==
    /\ disp.pc = "send_iter"
    /\ disp.attempt = 1
    /\ disp.item.text = T_START

\* C5: STREAM START while streaming is true returns OK#STREAM#ALREADY_RUNNING,
\* starts no broadcast thread and does not restart the camera; while
\* streaming is false it sets streaming, starts exactly one broadcast thread
\* and returns OK#STREAM#STARTED.
C5_StartOnce ==
    StartHandled =>
        IF disp.was
        THEN /\ disp.resp = Resp("OK", "STREAM#ALREADY_RUNNING")
             /\ Len(bthreads) = disp.n0
             /\ cam.gen = disp.g0
             /\ streaming
        ELSE /\ disp.resp = Resp("OK", "STREAM#STARTED")
             /\ Len(bthreads) = disp.n0 + 1
             /\ video_thread = Len(bthreads)
             /\ streaming

\* A second STREAM START has been answered ALREADY_RUNNING and the client
\* has the answer: one broadcast thread, the first StreamingOutput.
C5_Witness ==
    /\ Len(cwritten) = 2
    /\ cwritten[1].resp = Resp("OK", "STREAM#STARTED")
    /\ cwritten[2].resp = Resp("OK", "STREAM#ALREADY_RUNNING")
    /\ Len(bthreads) = 1
    /\ cam.gen = 1

\* The frames get_frame has returned to thread t.
Got(t) == {bthreads[t].got[i] : i \in 1..Len(bthreads[t].got)}

\* C6: a reader that starts waiting before F1 is published receives the last
\* frame published (F2 when F1 and F2 are published and nothing afterwards).
\* Stated on the state in which every frame is published and the reader
\* waits again on the condition of the running encoder: nothing will wake it.
C6_ReaderGetsLast ==
    \A t \in Threads :
        (/\ bthreads[t].w0
         /\ published = MaxFrames
         /\ bthreads[t].pc = "waiting"
         /\ bthreads[t].gen = cam.gen
         /\ cam.encoder /\ cam.is_streaming /\ streaming)
          => MaxFrames \in Got(t)

\* C7: the frames returned by successive get_frame calls, and the frames
\* written to a video client, are in production order.
C7_ProductionOrder ==
    /\ \A t \in Threads : \A i, j \in 1..Len(bthreads[t].got) :
          i < j => bthreads[t].got[i] <= bthreads[t].got[j]
    /\ \A i, j \in 1..Len(vwritten) :
          (i < j /\ vwritten[i].to = vwritten[j].to)
            => vwritten[i].frame <= vwritten[j].frame

\* The get_frame half of C7 alone.
GetFrameOrder ==
    \A t \in Threads : \A i, j \in 1..Len(bthreads[t].got) :
        i < j => bthreads[t].got[i] < bthreads[t].got[j]

\* Thread t waits on a condition nothing will notify: the camera has a newer
\* StreamingOutput, or stop_streaming has returned.
Stuck(t) ==
    /\ bthreads[t].pc = "waiting"
    /\ \/ bthreads[t].gen # cam.gen
       \/ ~cam.encoder /\ ~cam.is_streaming

\* A reader that is stuck stays stuck, whatever happens next.
StuckForever == [][\A t \in Threads : Stuck(t) => Stuck(t)']_vars

\* C8: stopping streaming releases every reader blocked in get_frame.
\* Stated on the states after Camera.stop_streaming has returned: no reader
\* is left waiting on the condition of the stopped StreamingOutput.
C8_StopReleasesReaders == \A t \in Threads : ~Stuck(t)

\* ---- SpecCmd: one command client sends one MOTOR command, with or without
\* a PCA9685 that answered.
InitCmd == Started(<<Client(Addrs[1])>>, <<1>>, <<>>, <<>>, FALSE)

NextCmd == Reader(MotorTexts, 1) \/ Dispatcher

SpecCmd == InitCmd /\ [][NextCmd]_vars

\* The dispatcher has run the handler of the command it holds.
Handled == disp.pc \in {"send_iter", "send_next", "send_write", "crashed"}

\* The arguments of the MOTOR command the dispatcher holds.
Sent == disp.item.margs

\* C3: a MOTOR command with exactly 4 integer arguments in [-4095, 4095] is
\* answered OK#MOTOR and set_motor_speeds is called exactly once, with the 4
\* values in the order of the arguments.
C3_ValidMotor ==
    (Handled /\ Len(Sent) = 4 /\ \A i \in 1..4 : Sent[i] \in IntToks)
      => /\ disp.attempt = 1 => disp.resp = Resp("OK", "MOTOR")
         /\ Len(motorCalls) = disp.m0 + 1
         /\ motorCalls[Len(motorCalls)] = [i \in 1..4 |-> TokVal(Sent[i])]

\* OK#MOTOR is written to the client that sent motor#-4095#4095# 0#4095.
C3_Witness ==
    /\ cwritten # <<>>
    /\ cwritten[1].resp = Resp("OK", "MOTOR")
    /\ motorCalls = << <<0 - DUTY_MAX, DUTY_MAX, 0, DUTY_MAX>> >>

\* C4: a MOTOR command whose argument count is not 4, or with an argument
\* that int() rejects, is answered ERROR#..., set_motor_speeds is not called
\* and no channel value changes.
C4_InvalidMotor ==
    (Handled /\ (Len(Sent) # 4 \/ \E i \in 1..Len(Sent) : Sent[i] \in BadToks))
      => /\ disp.resp.tag = "ERROR"
         /\ Len(motorCalls) = disp.m0
         /\ pwm = disp.p0

\* The ERROR response of int() is written to the client of a command with an
\* argument x, and set_motor_speeds was not called.
C4_Witness ==
    /\ cwritten # <<>>
    /\ cwritten[1].resp.tag = "ERROR"
    /\ cwritten[1].resp.arg = <<"x">>
    /\ motorCalls = <<>>

\* ---- C11 to C20.
\* Both accept loops have left `while self.running` and every read loop that
\* was started has ended.
LoopsStopped ==
    /\ cmd_acc.pc = "exit"
    /\ vid_acc.pc = "exit"
    /\ \A s \in 1..Len(csock) : csock[s].rd \in {"none", "done", "dead"}

\* stop_server() has returned to the signal handler.
StopServerReturned == main.pc = "st_run"

\* C11: once stop_server has returned and all loops have stopped, both
\* registries are empty and every connection that was accepted is closed,
\* also a connection accepted while stop_server was running.
C11_ShutdownClosesAll ==
    (StopServerReturned /\ LoopsStopped)
      => /\ Size(command_clients) = 0
         /\ Size(video_clients) = 0
         /\ \A s \in 1..Len(csock) : ~csock[s].open
         /\ \A s \in 1..Len(vsock) : ~vsock[s].open

\* The two halves of C11 apart: the command channel, and the video channel.
CmdClosedAfterShutdown ==
    (StopServerReturned /\ LoopsStopped)
      => /\ Size(command_clients) = 0
         /\ \A s \in 1..Len(csock) : ~csock[s].open

VidClosedAfterShutdown ==
    (StopServerReturned /\ LoopsStopped)
      => /\ Size(video_clients) = 0
         /\ \A s \in 1..Len(vsock) : ~vsock[s].open

\* ---- SpecStop: stop() while a stream is on, and stop() called again: the
\* signal handler and stop(), both listeners and the dispatcher with nothing
\* arriving, the camera and the broadcast loop.  A video client is registered
\* and the command client that turned the stream on has disconnected.
InitStop ==
    /\ Started(<<Gone(Addrs[1])>>, <<0>>, <<Viewer(Addrs[1])>>, <<1>>, TRUE)
    /\ initialized = TRUE

NextStop ==
    \/ CmdAccLoop \/ CmdAcceptNone \/ VidAccLoop \/ VidAcceptNone
    \/ DispLoop \/ DispPoll \/ Broadcast \/ CamWrite
    \/ Shutdown \/ ShutdownStream \/ StopAgain

SpecStop == InitStop /\ [][NextStop]_vars

\* C12: once stop() has been invoked, both accept loops, the dispatch loop
\* and the broadcast loop terminate.  Stated on the state in which stop()
\* has returned: no broadcast thread is left inside condition.wait(), which
\* nothing ends any more (StuckForever).
C12_LoopsTerminate ==
    main.pc = "stopped" => \A t \in Threads : bthreads[t].pc # "waiting"

\* What stop() does achieve: when it has returned, the loops that poll a flag
\* are not blocked and find the flag false at their next test.
PollingLoopsSeeStop ==
    main.pc = "stopped" => /\ ~running
                           /\ ~car_running
                           /\ ~listen.cmd /\ ~listen.vid

\* ---- SpecRead: the command listener, the read loops and stop_server(),
\* with the fairness the scheduler and the 60 s read timeout give: a read
\* loop that can take a step takes one (recv returns data, b'', a timeout or
\* an error within the timeout).
InitRead ==
    /\ Started(<<Client(Addrs[1])>>, <<1>>, <<>>, <<>>, FALSE)
    /\ initialized = TRUE

NextRead ==
    \/ CmdAcceptLoop \/ Reader(NetTexts, MaxCmds)
    \/ MainSignal \/ StopServer

\* A step of the read loop of connection s.
ReaderStep(s) ==
    /\ s \in 1..Len(csock)
    /\ \/ ReaderStart(s) \/ ReaderLoop(s) \/ ReaderRecv(s, NetTexts, MaxCmds)
       \/ ReaderRecvEnd(s) \/ ReaderDel(s) \/ ReaderClose(s)

SpecRead ==
    /\ InitRead /\ [][NextRead]_vars
    /\ \A s \in 1..MaxSocks : WF_vars(ReaderStep(s))

\* The read loop of connection s is in recv while running is false.
BlockedAtShutdown(s) ==
    /\ s \in 1..Len(csock)
    /\ csock[s].rd = "recv"
    /\ ~running

\* The thread handle_client_commands of connection s has ended.
ReaderEnded(s) ==
    /\ s \in 1..Len(csock)
    /\ csock[s].rd \in {"done", "dead"}

\* C13: a read loop that is blocked in recv when stop_server is invoked
\* leaves the recv (closed or errored socket, or the read timeout) and its
\* thread ends.
C13_ReadLoopEnds ==
    \A s \in 1..MaxSocks : BlockedAtShutdown(s) ~> ReaderEnded(s)

\* stop_server has returned, has closed the socket of a registered client,
\* and that client's read loop is still in its recv.
C13_Witness ==
    /\ main.pc = "st_run"
    /\ \E s \in 1..Len(csock) : BlockedAtShutdown(s) /\ ~csock[s].open

\* The state a completed shutdown is to leave: both running flags and the
\* streaming flag false, both registries empty, every accepted socket and
\* both listening sockets closed, the camera stopped.
ShutDownState ==
    /\ ~running /\ ~car_running /\ ~streaming
    /\ Size(command_clients) = 0 /\ Size(video_clients) = 0
    /\ \A s \in 1..Len(csock) : ~csock[s].open
    /\ \A s \in 1..Len(vsock) : ~vsock[s].open
    /\ ~listen.cmd /\ ~listen.vid
    /\ ~cam.is_streaming /\ ~cam.encoder

SecondStopChangesNothing ==
    [][(main.again /\ main' # main)
         => UNCHANGED <<running, car_running, streaming, video_thread,
                        command_clients, video_clients, csock, vsock, listen,
                        cam, pwm>>]_vars

\* What a video client does with the 4 bytes of a length prefix.
unpack_LE(b) == b[1] + 256 * b[2] + 65536 * b[3] + 16777216 * b[4]

\* A byte stream of length prefixes and payloads a reader can take apart:
\* a 4-byte prefix, then the payload of the same frame whose length is the
\* number the prefix decodes to; the last prefix may still lack its payload.
Framed(S) ==
    \A i \in 1..Len(S) :
        IF i % 2 = 1
        THEN /\ S[i].part = "size"
             /\ S[i].len = 4 /\ Len(S[i].head) = 4
             /\ \A k \in 1..4 : S[i].head[k] \in 0..255
        ELSE /\ S[i].part = "data"
             /\ S[i].frame = S[i - 1].frame
             /\ S[i].len = unpack_LE(S[i - 1].head)
             /\ S[i].len = FrameLen(S[i].frame)

\* C15: what is written to a video client is, for every frame passed to
\* send_video_data, the 4-byte little-endian length followed by the payload,
\* so that a reader of the socket recovers every payload.
C15_Framing ==
    \A v \in 1..Len(vsock) :
        Framed(SelectSeq(vwritten, LAMBDA w : w.to = v))

\* What holds: the writes of each broadcast thread, taken alone, are framed.
FramedPerThread ==
    \A v \in 1..Len(vsock) : \A t \in Threads :
        Framed(SelectSeq(vwritten, LAMBDA w : w.to = v /\ w.by = t))

\* ---- SpecStatus: one command client that sends STREAM#START and STATUS, the
\* video listener, and a shutdown by signal up to the statement of stop() that
\* clears the running flag.
MaxStatusCmds == 2

InitStatus ==
    /\ Started(<<Client(Addrs[1])>>, <<1>>, <<>>, <<>>, FALSE)
    /\ initialized = TRUE

NextStatus ==
    \/ VidAcceptLoop \/ Reader(Plain({T_STATUS, T_START}), MaxStatusCmds)
    \/ Dispatcher \/ DispatcherStatus
    \/ DispStartCam \/ DispStartCam2 \/ DispStartThread
    \/ MainSignal \/ StopServer \/ StopRun

SpecStatus == InitStatus /\ [][NextStatus]_vars

\* C16: the response to STATUS has the tag STATUS and a payload of four
\* fields, and each field is the value its source has when the handler
\* reads it: running is LaneFollowingCar.running, streaming is the streaming
\* flag, video_clients says whether the video registry is non-empty and
\* command_clients whether the command registry is non-empty; a field once
\* read is not changed by the later reads.
C16_StatusFields ==
    [][ LET st == disp.resp.status[1]
            st2 == disp'.resp.status[1]
        IN  /\ (disp.pc = "exec" /\ Command(disp.item.text) = V_STATUS /\ disp' # disp)
                   => /\ disp'.pc = "st_streaming"
                      /\ disp'.resp.tag = "STATUS"
                      /\ st2.running = car_running
            /\ (disp.pc = "st_streaming" /\ disp' # disp)
                   => /\ st2.streaming = streaming
                      /\ st2.running = st.running
            /\ (disp.pc = "st_video" /\ disp' # disp)
                   => /\ st2.video_clients = (Size(video_clients) > 0)
                      /\ st2.running = st.running
                      /\ st2.streaming = st.streaming
            /\ (disp.pc = "st_command" /\ disp' # disp)
                   => /\ disp'.pc = "send_iter"
                      /\ disp'.resp.tag = "STATUS"
                      /\ st2.command_clients = (Size(command_clients) > 0)
                      /\ st2.running = st.running
                      /\ st2.streaming = st.streaming
                      /\ st2.video_clients = st.video_clients ]_vars

\* The dispatcher holds the STATUS response of a server with no client and
\* no stream.
C16_Witness ==
    /\ disp.pc = "send_iter"
    /\ disp.resp = StatusResp([running |-> TRUE, streaming |-> FALSE,
                               video_clients |-> FALSE, command_clients |-> FALSE])
    /\ car_running /\ ~streaming
    /\ Size(video_clients) = 0 /\ Size(command_clients) = 0

\* The dispatcher holds a STATUS response that reports a stream and a client
\* on each channel.
StatusAllTrue ==
    /\ disp.pc = "send_iter"
    /\ disp.resp = StatusResp([running |-> TRUE, streaming |-> TRUE,
                               video_clients |-> TRUE, command_clients |-> TRUE])

\* The dispatcher holds a STATUS response built after stop() had cleared the
\* running flag.
StatusNotRunning ==
    /\ disp.pc = "send_iter"
    /\ disp.resp.tag = "STATUS"
    /\ ~disp.resp.status[1].running

\* C17: no broadcast is ended by the iteration over the video registry in
\* send_video_data: a registry changed or cleared by another thread while
\* the loop over it runs raises nothing there.
C17_IterationSurvives == \A t \in Threads : bthreads[t].err # ChangedSize

\* A broadcast thread has ended with an exception of send_video_data.
BroadcastCrashed == \E t \in Threads : bthreads[t].pc = "crashed"

\* C18: a call of send_video_data in which a write to a video client failed
\* returns normally: the removal of the clients listed in clients_to_remove
\* raises nothing, so that no broadcast thread is ended by it.
C18_WriteFailureHandled == \A t \in Threads : bthreads[t].err # "KeyError"

\* A step of the removal loop that raises nothing removes the entry of the
\* client whose write failed, and no other, and closes its socket, and
\* leaves the sockets of the other video clients as they are.
RemovalRemovesFailed ==
    [][ \A t \in Threads :
          (bthreads[t].pc = "vd_rm" /\ bthreads'[t].pc \in {"loop", "vd_rm"}
               /\ bthreads'[t] # bthreads[t])
            => LET s == Head(bthreads[t].rm)
               IN  /\ Has(video_clients, s) /\ ~Has(video_clients', s)
                   /\ \A v \in 1..Len(vsock) :
                         v # s => (Has(video_clients', v) <=> Has(video_clients, v))
                   /\ ~vsock'[s].open
                   /\ \A v \in 1..Len(vsock) : v # s => vsock'[v] = vsock[v] ]_vars

\* C19: the teardown of a command client's read loop completes without
\* error, also when stop_server removes the client at the same time: no
\* read thread is ended by an exception of its finally block.
C19_TeardownCompletes == \A s \in 1..Len(csock) : csock[s].rd # "dead"

\* A teardown that raises nothing ends with the client out of the command
\* registry and its socket closed.
TeardownDone ==
    \A s \in 1..Len(csock) :
        csock[s].rd = "done" => ~csock[s].open /\ ~Has(command_clients, s)

\* The `del` of a teardown removes the entry of its own client and no other.
TeardownRemovesOwn ==
    [][ \A s \in 1..Len(csock) :
          (csock[s].rd = "del" /\ csock'[s].rd = "close")
            => /\ Has(command_clients, s) /\ ~Has(command_clients', s)
               /\ \A c \in 1..Len(csock) :
                     c # s => (Has(command_clients', c) <=> Has(command_clients, c)) ]_vars

\* C20: a call of send_command_response made when the connection that sent
\* the command is no longer registered only walks through the registry: it
\* reaches no sendall on an open socket and raises nothing (neither into the
\* except block of parse_and_execute_command nor out of process_commands).
C20_SilentNoOp ==
    disp.gone => \/ disp.pc = "send_next"
                 \/ disp.pc = "send_write" /\ ~csock[disp.s].open

\* The same call never raises: the part of C20 that the address test of C9
\* does not touch.
GoneNeverRaises == disp.gone => disp.pc \in {"send_next", "send_write"}

\* The same call reaches no sendall on an open socket.
GoneNeverWrites ==
    ~(disp.gone /\ disp.pc = "send_write" /\ csock[disp.s].open)

\* The same call reaches a sendall only on a socket with the peer address of
\* the sender.
GoneWritesToAddress ==
    (disp.gone /\ disp.pc = "send_write") => csock[disp.s].addr = disp.item.addr

\* ------------------------------------------------------------ C21 to C25
\* The broadcast loop of a server with no video client: the test of the
\* flags and the test of the registry.
BroadcastIdle == \E t \in Threads : BLoop(t) \/ BHas(t)

\* ---- SpecHalt: one command client that sends STREAM#START, the dispatcher,
\* the broadcast thread it starts, and a shutdown by signal up to the end of
\* stop().
InitHalt ==
    /\ Started(<<Client(Addrs[1])>>, <<1>>, <<>>, <<>>, FALSE)
    /\ initialized = TRUE

NextHalt ==
    \/ Reader(Plain({T_START}), MaxCmds)
    \/ Dispatcher \/ DispStartCam \/ DispStartCam2 \/ DispStartThread
    \/ BroadcastIdle
    \/ Shutdown \/ ShutdownStream

SpecHalt == InitHalt /\ [][NextHalt]_vars

\* stop() has made its test of self.streaming (and cleared the flag when it
\* was set) and has not returned yet.
StopPastStream ==
    \/ main.pc \in {"svs_chk", "svs_join", "svs_none", "svs_cam", "svs_cam2",
                    "st_motor", "st_join", "st_camclose", "st_motorclose"}
    \/ /\ main.pc \in {"ss_run", "ss_cclose", "ss_cclear", "ss_vclose",
                        "ss_vclear", "ss_listen"}
       /\ main.ret = "st_camclose"

\* C21: once the shutdown has forced the streaming flag to false, the flag
\* is false in every later state of the shutdown, whatever STREAM START
\* command was queued or being dispatched when the shutdown began.
C21_StreamingStaysOff == StopPastStream => ~streaming

\* The streaming flag is set by the START branch of handle_stream_command
\* only, and cleared by its STOP branch and by stop() only.
StreamingChanges ==
    [][ /\ (~streaming /\ streaming')
            => /\ disp.pc = "exec" /\ disp'.pc = "start_cam"
               /\ Command(disp.item.text) = V_STREAM
               /\ StreamAction(Args(disp.item.text)) = "start"
        /\ (streaming /\ ~streaming')
            => \/ /\ disp.pc = "exec" /\ disp'.pc = "svs_chk"
                  /\ StreamAction(Args(disp.item.text)) = "stop"
               \/ main.pc = "st_stream" /\ main'.pc = "svs_chk" ]_vars

\* ---- SpecQueue: the command listener, the read loops of the connections
\* it accepts, which put MaxQueued commands in all, and the dispatcher, each
\* of whose steps is taken when it is the only thing left to do (the thread
\* is scheduled).
MaxQueued == 2

NextQueue ==
    \/ CmdAcceptLoop \/ Reader(Plain({T_FOO}), MaxQueued)
    \/ Dispatcher

SpecQueue == InitBoard /\ [][NextQueue]_vars /\ WF_vars(Dispatcher)

\* The number of records the dispatcher has taken from the queue.
Taken == sent - Len(message_queue)

\* The queue holds the records not taken yet, oldest first.
QueueInOrder ==
    \A i \in 1..Len(message_queue) : message_queue[i].n = Taken + i

\* Every get of the dispatcher takes the oldest record not taken yet and
\* leaves the others queued.
DequeueOldest ==
    (disp.pc = "poll" /\ disp'.pc = "exec")
        => /\ disp'.item.n = Taken + 1
           /\ message_queue' = Tail(message_queue)

\* The responses written are those of different commands, in the order of
\* the commands.
ResponsesInOrder ==
    \A i, j \in 1..Len(cwritten) : i < j => cwritten[i].n < cwritten[j].n

\* C22: the dispatcher takes the commands in the order in which the read
\* loops put them in the queue, each one once; a command in the queue is
\* taken for as long as the dispatcher thread lives; and the responses are
\* written in the order of the commands.
C22_FifoDispatch ==
    /\ [](QueueInOrder /\ ResponsesInOrder)
    /\ [][DequeueOldest]_vars
    /\ <>[](message_queue = <<>> \/ disp.pc = "crashed")

\* The dispatcher is about to take a record from a queue that holds the
\* commands of two connections.
C22_Witness ==
    /\ disp.pc = "poll"
    /\ Len(message_queue) = 2
    /\ message_queue[1].from # message_queue[2].from

\* ---- SpecClamp: one command client sends one MOTOR command with 4 integer
\* arguments, in and out of the range of the duty cycle, with or without a
\* PCA9685 that answered.
ClampToks == {<<"4", "0", "9", "6">>, <<"-", "4", "0", "9", "6">>,
              <<"7", "0", "0", "0", "0">>, <<"-", "4", "0", "9", "5">>,
              <<"1", "2">>}

ClampVal(tok) ==
    CASE tok = <<"4", "0", "9", "6">> -> 4096
      [] tok = <<"-", "4", "0", "9", "6">> -> 0 - 4096
      [] tok = <<"7", "0", "0", "0", "0">> -> 70000
      [] tok = <<"-", "4", "0", "9", "5">> -> 0 - 4095
      [] tok = <<"1", "2">> -> 12

ClampTexts ==
    {[text |-> MotorText([verb |-> V_MOTOR, ending |-> <<"\n">>], args), margs |-> args] :
         args \in Tuples(4, ClampToks)}

NextClamp == Reader(ClampTexts, 1) \/ Dispatcher

SpecClamp == InitCmd /\ [][NextClamp]_vars

\* The bound of [-4095, 4095] nearest to v, v itself when it is in range.
Nearest(v) == IF v > 4095 THEN 4095 ELSE IF v < 0 - 4095 THEN 0 - 4095 ELSE v

\* What the two channels of wheel w hold once the wheel was given duty c.
WheelShows(w, c) ==
    LET pin == MotorPins(w)
    IN  IF c > 0 THEN pwm[pin.a] = 0 /\ pwm[pin.b] = c
        ELSE IF c < 0 THEN pwm[pin.b] = 0 /\ pwm[pin.a] = 0 - c
        ELSE pwm[pin.a] = 4095 /\ pwm[pin.b] = 4095

\* C23: a MOTOR command with 4 integer arguments, some of them outside
\* [-4095, 4095], is answered OK#MOTOR and set_motor_speeds is called once;
\* what reaches the channels of each wheel is the argument limited to the
\* nearest bound, so that every channel value is in [0, 4095]; and the
\* limiting leaves a value in range as it is and, applied twice, gives what
\* it gives applied once.
C23_Clamped ==
    /\ \A c \in DOMAIN pwm : pwm[c] \in 0..4095
    /\ \A tok \in ClampToks :
          LET v == ClampVal(tok)
          IN  /\ _duty_range(v) = Nearest(v)
              /\ _duty_range(_duty_range(v)) = _duty_range(v)
              /\ (v \in (0 - 4095)..4095) => _duty_range(v) = v
    /\ (Handled /\ Len(Sent) = 4 /\ \A i \in 1..4 : Sent[i] \in ClampToks)
          => /\ disp.attempt = 1 => disp.resp = Resp("OK", "MOTOR")
             /\ Len(motorCalls) = disp.m0 + 1
             /\ initialized
                   => \A w \in 0..3 : WheelShows(w, Nearest(ClampVal(Sent[w + 1])))
             /\ ~initialized => pwm = disp.p0

\* OK#MOTOR is written to the client that sent MOTOR#4096#-4096#70000#12, and
\* the channels hold 4095, 4095, 4095 and 12.
C23_Witness ==
    /\ cwritten # <<>>
    /\ cwritten[1].resp = Resp("OK", "MOTOR")
    /\ motorCalls = << <<4096, 0 - 4096, 70000, 12>> >>
    /\ initialized
    /\ pwm[1] = 4095 /\ pwm[3] = 4095 /\ pwm[7] = 4095 /\ pwm[5] = 12

FrameOnlyAfterCheck ==
    [][ \A t \in Threads :
          /\ (bthreads[t].pc # "gf" /\ bthreads'[t].pc = "gf")
                => bthreads[t].pc = "has" /\ Size(video_clients) > 0
          /\ (bthreads[t].pc = "has" /\ Size(video_clients) = 0
                 /\ bthreads'[t] # bthreads[t])
                => bthreads'[t].pc = "loop" ]_vars

\* The stream_video_frames threads that have not ended.
Alive == {t \in Threads : bthreads[t].pc \notin {"done", "crashed"}}

\* C25: at most one stream_video_frames thread is alive at any time.
C25_OneBroadcastLoop == Cardinality(Alive) <= 1

\* Two threads are never inside send_video_data at once.
OneSender ==
    Cardinality({t \in Alive : bthreads[t].pc \in
                    {"vd_iter", "vd_next", "vd_send1", "vd_send2", "vd_rm"}}) <= 1

\* A thread is started only by a STREAM START that found the flag false.
StartedByStart ==
    [][ Len(bthreads') > Len(bthreads)
          => /\ disp.pc = "start_thread"
             /\ Len(bthreads') = Len(bthreads) + 1
             /\ ~disp.was ]_vars

====
